---- MODULE Spec2Model ----
(***************************************************************************)
(* Model of Aichatbot.py: a line-oriented shop assistant that answers      *)
(* product queries and records sales against product.json and sale.json.   *)
(*                                                                         *)
(* Text is modelled as sequences of one-character strings, so that         *)
(* strip(), lower(), upper(), the regular expressions of parse_and_handle  *)
(* and the matching tiers of find_product_by_name are computed the way      *)
(* the program computes them.                                              *)
(***************************************************************************)
EXTENDS Integers, Sequences, FiniteSets

(***************************************************************************)
(* Characters and the str methods the program uses                         *)
(***************************************************************************)

\* The characters of the model, in code-point order.
Ascii ==
  << "\t", " ", "-", "0", "1", "2", "3", "4", "5", "6", "7", "8", "9", "?",
     "A", "B", "C", "D", "E", "F", "G", "H", "I", "J", "K", "L", "M",
     "N", "O", "P", "Q", "R", "S", "T", "U", "V", "W", "X", "Y", "Z",
     "a", "b", "c", "d", "e", "f", "g", "h", "i", "j", "k", "l", "m",
     "n", "o", "p", "q", "r", "s", "t", "u", "v", "w", "x", "y", "z" >>

Ord(c) == CHOOSE i \in 1..Len(Ascii) : Ascii[i] = c

UpperCase == SubSeq(Ascii, 15, 40)
LowerCase == SubSeq(Ascii, 41, 66)
DigitChars == SubSeq(Ascii, 4, 13)
WhiteSpace == {"\t", " "}

IsSpace(c) == c \in WhiteSpace
IsDigit(c) == \E i \in 1..Len(DigitChars) : DigitChars[i] = c
DigitVal(c) == (CHOOSE i \in 1..Len(DigitChars) : DigitChars[i] = c) - 1

LowerChar(c) ==
  IF \E i \in 1..Len(UpperCase) : UpperCase[i] = c
  THEN LowerCase[CHOOSE i \in 1..Len(UpperCase) : UpperCase[i] = c]
  ELSE c

UpperChar(c) ==
  IF \E i \in 1..Len(LowerCase) : LowerCase[i] = c
  THEN UpperCase[CHOOSE i \in 1..Len(LowerCase) : LowerCase[i] = c]
  ELSE c

\* str.lower(), str.upper()
Lower(s) == [i \in 1..Len(s) |-> LowerChar(s[i])]
Upper(s) == [i \in 1..Len(s) |-> UpperChar(s[i])]

\* s[i:j] of Python with 1-based inclusive bounds; empty when j < i
Slice(s, i, j) == IF j < i THEN << >> ELSE SubSeq(s, i, j)

\* str.strip()
Strip(s) ==
  LET keep == {i \in 1..Len(s) : ~IsSpace(s[i])}
  IN IF keep = {} THEN << >>
     ELSE LET lo == CHOOSE i \in keep : \A j \in keep : i <= j
              hi == CHOOSE i \in keep : \A j \in keep : j <= i
          IN SubSeq(s, lo, hi)

\* str.startswith(prefix)
StartsWith(s, prefix) ==
  /\ Len(prefix) <= Len(s)
  /\ SubSeq(s, 1, Len(prefix)) = prefix

\* needle in s
Contains(s, needle) ==
  \E i \in 0..(Len(s) - Len(needle)) : Slice(s, i + 1, i + Len(needle)) = needle

\* str.isdigit()
AllDigits(s) == Len(s) > 0 /\ \A i \in 1..Len(s) : IsDigit(s[i])
AllSpace(s) == Len(s) > 0 /\ \A i \in 1..Len(s) : IsSpace(s[i])

\* int(s) of a digit string
RECURSIVE ToInt(_)
ToInt(s) ==
  IF Len(s) = 0 THEN 0
  ELSE 10 * ToInt(SubSeq(s, 1, Len(s) - 1)) + DigitVal(s[Len(s)])

\* s < t in Python's string order (code points, then length)
StrLess(s, t) ==
  \/ /\ Len(s) < Len(t)
     /\ SubSeq(t, 1, Len(s)) = s
  \/ \E i \in 1..Len(s) :
       /\ i <= Len(t)
       /\ SubSeq(s, 1, i - 1) = SubSeq(t, 1, i - 1)
       /\ Ord(s[i]) < Ord(t[i])

(***************************************************************************)
(* difflib.SequenceMatcher.ratio as used by difflib.get_close_matches      *)
(***************************************************************************)

\* find_longest_match: the longest common block, earliest in a, then in b
LongestMatch(a, b) ==
  LET blocks == {m \in (1..Len(a)) \X (1..Len(b)) \X (1..Len(a)) :
                   /\ m[1] + m[3] - 1 <= Len(a)
                   /\ m[2] + m[3] - 1 <= Len(b)
                   /\ SubSeq(a, m[1], m[1] + m[3] - 1) = SubSeq(b, m[2], m[2] + m[3] - 1)}
  IN IF blocks = {} THEN <<1, 1, 0>>
     ELSE CHOOSE m \in blocks :
            \A n \in blocks :
              \/ m[3] > n[3]
              \/ m[3] = n[3] /\ m[1] < n[1]
              \/ m[3] = n[3] /\ m[1] = n[1] /\ m[2] <= n[2]

\* the number of matched characters summed over get_matching_blocks
RECURSIVE MatchCount(_, _)
MatchCount(a, b) ==
  IF Len(a) = 0 \/ Len(b) = 0 THEN 0
  ELSE LET m == LongestMatch(a, b)
       IN IF m[3] = 0 THEN 0
          ELSE m[3]
               + MatchCount(Slice(a, 1, m[1] - 1), Slice(b, 1, m[2] - 1))
               + MatchCount(Slice(a, m[1] + m[3], Len(a)), Slice(b, m[2] + m[3], Len(b)))

\* ratio() = 2.0 * M / T as the pair <<2M, T>>; T > 0 wherever it is used
Ratio(a, b) == << 2 * MatchCount(a, b), Len(a) + Len(b) >>

\* AtLeastCutoff for the cutoff 0
AtLeastCutoff_any(r) == 5 * r[1] >= 0 * r[2]

\* ratio >= cutoff for the default cutoff 0.6 = 3/5
AtLeastCutoff(r) == 5 * r[1] >= 3 * r[2]
RatioLess(r, s) == r[1] * s[2] < s[1] * r[2]

\* get_close_matches(word, names, n=1, cutoff=0.6): the names scoring at
\* least the cutoff, the best of them by (score, name); << >> when none
CloseMatches(word, names) ==
  LET good == {i \in 1..Len(names) : AtLeastCutoff(Ratio(names[i], word))}
  IN IF good = {} THEN << >>
     ELSE LET best == CHOOSE i \in good :
                        \A j \in good :
                          /\ ~RatioLess(Ratio(names[i], word), Ratio(names[j], word))
                          /\ (Ratio(names[i], word)[1] * Ratio(names[j], word)[2]
                                = Ratio(names[j], word)[1] * Ratio(names[i], word)[2])
                             => ~StrLess(names[i], names[j])
          IN << names[best] >>

(***************************************************************************)
(* Product search                                                          *)
(***************************************************************************)

\* find_product_by_name without the tier of the exact matches
find_product_by_name_no_exact(products, rawname) ==
  LET name == Strip(rawname)
      idx == 1..Len(products)
      First(S) == CHOOSE i \in S : \A j \in S : i <= j
      sub == {i \in idx : Contains(Lower(Strip(products[i].name)), Lower(name))}
  IN IF Len(name) = 0 THEN 0
     ELSE IF sub # {} THEN First(sub)
     ELSE LET names == [i \in idx |-> products[i].name]
              matches == CloseMatches(name, names)
          IN IF matches = << >> THEN 0
             ELSE First({i \in idx : products[i].name = matches[1]})

\* find_product_by_name without the tier of the substring matches
find_product_by_name_no_substring(products, rawname) ==
  LET name == Strip(rawname)
      idx == 1..Len(products)
      First(S) == CHOOSE i \in S : \A j \in S : i <= j
      exact == {i \in idx : Lower(Strip(products[i].name)) = Lower(name)}
  IN IF Len(name) = 0 THEN 0
     ELSE IF exact # {} THEN First(exact)
     ELSE LET names == [i \in idx |-> products[i].name]
              matches == CloseMatches(name, names)
          IN IF matches = << >> THEN 0
             ELSE First({i \in idx : products[i].name = matches[1]})

\* find_product_by_name: the index in products of the product found, 0 for None
find_product_by_name(products, rawname) ==
  LET name == Strip(rawname)
      idx == 1..Len(products)
      First(S) == CHOOSE i \in S : \A j \in S : i <= j
      exact == {i \in idx : Lower(Strip(products[i].name)) = Lower(name)}
      sub == {i \in idx : Contains(Lower(Strip(products[i].name)), Lower(name))}
  IN IF Len(name) = 0 THEN 0
     ELSE IF exact # {} THEN First(exact)
     ELSE IF sub # {} THEN First(sub)
     ELSE LET names == [i \in idx |-> products[i].name]
              matches == CloseMatches(name, names)
          IN IF matches = << >> THEN 0
             ELSE First({i \in idx : products[i].name = matches[1]})

(***************************************************************************)
(* Words of the command grammar and the inputs of the model                *)
(***************************************************************************)
W_help == << "h", "e", "l", "p" >>
W_qmark == << "?" >>
W_exit == << "e", "x", "i", "t" >>
W_quit == << "q", "u", "i", "t" >>
W_show_products == << "s", "h", "o", "w", " ", "p", "r", "o", "d", "u", "c", "t", "s" >>
W_list_products == << "l", "i", "s", "t", " ", "p", "r", "o", "d", "u", "c", "t", "s" >>
W_products == << "p", "r", "o", "d", "u", "c", "t", "s" >>
W_show_sales == << "s", "h", "o", "w", " ", "s", "a", "l", "e", "s" >>
W_sales == << "s", "a", "l", "e", "s" >>
W_for == << "f", "o", "r" >>
W_show_last_sale == << "s", "h", "o", "w", " ", "l", "a", "s", "t", " ", "s", "a", "l", "e" >>
W_last_sale == << "l", "a", "s", "t", " ", "s", "a", "l", "e" >>
W_show_ == << "s", "h", "o", "w", " " >>
W_price_of_ == << "p", "r", "i", "c", "e", " ", "o", "f", " " >>
W_how_many_ == << "h", "o", "w", " ", "m", "a", "n", "y", " " >>
W_show == << "s", "h", "o", "w" >>
W_price_of == << "p", "r", "i", "c", "e", " ", "o", "f" >>
W_how_many == << "h", "o", "w", " ", "m", "a", "n", "y" >>
W_what_is == << "w", "h", "a", "t", " ", "i", "s", " ", "t", "h", "e", " ", "p", "r", "i", "c", "e", " ", "o", "f" >>
W_sell == << "s", "e", "l", "l" >>
W_CASH == << "C", "A", "S", "H" >>

\* product names of the model
N_Galaxy == << "G", "a", "l", "a", "x", "y", " ", "A", "-", "1", "7" >>
N_Widget == << "W", "i", "d", "g", "e", "t" >>
N_Gadget == << "G", "a", "d", "g", "e", "t" >>

\* the lines the operator may type
L_help == << "h", "e", "l", "p" >>
L_exit == << "e", "x", "i", "t" >>
L_products == << "p", "r", "o", "d", "u", "c", "t", "s" >>
L_show_sales == << "s", "h", "o", "w", " ", "s", "a", "l", "e", "s" >>
L_show_sales_for == << "s", "h", "o", "w", " ", "s", "a", "l", "e", "s", " ", "f", "o", "r", " ", "G", "a", "d" >>
L_sales_for == << "s", "a", "l", "e", "s", " ", "f", "o", "r", " ", "G", "a", "d" >>
L_last_sale == << "l", "a", "s", "t", " ", "s", "a", "l", "e" >>
L_show_name == << "s", "h", "o", "w", " ", "W", "i", "d", "g", "e", "t" >>
L_price_of == << "p", "r", "i", "c", "e", " ", "o", "f", " ", "g", "a", "d", "g", "e", "t" >>
L_how_many == << "h", "o", "w", " ", "m", "a", "n", "y", " ", "W", "i", "d", "g", "e", "t" >>
L_what_is == << "w", "h", "a", "t", " ", "i", "s", " ", "t", "h", "e", " ", "p", "r", "i", "c", "e", " ", "o", "f", " ", "W", "i", "d", "g", "e", "t" >>
L_sell_qty_name == << "s", "e", "l", "l", " ", "2", " ", "W", "i", "d", "g", "e", "t" >>
L_sell_name_qty == << "s", "e", "l", "l", " ", "G", "a", "d", "g", "e", "t", " ", "1" >>
L_sell_too_many == << "s", "e", "l", "l", " ", "9", " ", "W", "i", "d", "g", "e", "t" >>
L_sell_zero == << "s", "e", "l", "l", " ", "G", "a", "d", "g", "e", "t", " ", "0" >>
L_sell_unknown == << "s", "e", "l", "l", " ", "1", " ", "N", "o", "p", "e" >>
L_qty_name == << "1", " ", "G", "a", "d", "g", "e", "t" >>
L_qty_name_too_many == << "7", " ", "w", "i", "d", "g", "e", "t" >>
L_qty_unknown == << "2", " ", "N", "o", "p", "e" >>
L_three == << "3" >>
L_zero == << "0" >>
L_ten == << "1", "0" >>
L_name == << "W", "i", "d", "g", "e", "t" >>
L_name_part == << "g", "a", "d" >>
L_name_typo == << "W", "i", "d", "g", "t", "e" >>
L_name_default == << "g", "a", "l", "a", "x", "y" >>
L_unknown == << "x", "y", "z" >>
L_blank == << " ", " " >>

Lines ==
  { L_help, L_exit, L_products, L_show_sales,
    L_show_sales_for, L_sales_for, L_last_sale, L_show_name,
    L_price_of, L_how_many, L_what_is, L_sell_qty_name,
    L_sell_name_qty, L_sell_too_many, L_sell_zero, L_sell_unknown,
    L_qty_name, L_qty_name_too_many, L_qty_unknown, L_three,
    L_zero, L_ten, L_name, L_name_part,
    L_name_typo, L_name_default, L_unknown, L_blank }

\* the answers the operator may give to the payment prompt
A_blank == << " " >>
A_upi == << "u", "p", "i" >>
PaymentAnswers == {A_blank, A_upi}

(***************************************************************************)
(* The regular expressions of parse_and_handle                             *)
(***************************************************************************)

\* the last index of the longest run of whitespace (\s+) that starts at
\* index k of s; k - 1 when there is none
SpaceRunEnd(s, k) ==
  LET ends == {e \in (k - 1)..Len(s) : \A i \in k..e : IsSpace(s[i])}
  IN CHOOSE e \in ends : \A f \in ends : f <= e

\* the same for a run of digits (\d+)
DigitRunEnd(s, k) ==
  LET ends == {e \in (k - 1)..Len(s) : \A i \in k..e : IsDigit(s[i])}
  IN CHOOSE e \in ends : \A f \in ends : f <= e

NoGroup == [ok |-> FALSE, g |-> << >>]

\* \s+(.+) matched from index k to the end of s: the text captured by (.+)
Rest(s, k) ==
  LET e == SpaceRunEnd(s, k)
  IN IF e < k THEN NoGroup
     ELSE IF e < Len(s) THEN [ok |-> TRUE, g |-> SubSeq(s, e + 1, Len(s))]
     ELSE IF e > k THEN [ok |-> TRUE, g |-> << s[e] >>]
     ELSE NoGroup

\* re.match(r"sales(?:\s+for\s+(.+))?", u, re.I): whether it matches, and group 1
MatchSales(u) ==
  IF ~StartsWith(Lower(u), W_sales) THEN [ok |-> FALSE, name |-> NoGroup]
  ELSE LET e == SpaceRunEnd(u, Len(W_sales) + 1)
           tail == IF /\ e > Len(W_sales)
                      /\ Lower(Slice(u, e + 1, e + Len(W_for))) = W_for
                   THEN Rest(u, e + Len(W_for) + 1)
                   ELSE NoGroup
       IN [ok |-> TRUE, name |-> tail]

\* re.match(r"(?:show|price of|how many|what is the price of)\s+(.+)", u, re.I)
MatchQuery(u) ==
  LET alts == << W_show, W_price_of, W_how_many, W_what_is >>
      hits == {i \in 1..Len(alts) :
                 /\ StartsWith(Lower(u), alts[i])
                 /\ Rest(u, Len(alts[i]) + 1).ok}
  IN IF hits = {} THEN NoGroup
     ELSE Rest(u, Len(alts[CHOOSE i \in hits : \A j \in hits : i <= j]) + 1)

NoGroups == [ok |-> FALSE, g1 |-> << >>, g2 |-> << >>]

\* re.match(r"sell\s+(\d+)\s+(.+)", u, re.I)
MatchSellQtyName(u) ==
  LET e == SpaceRunEnd(u, Len(W_sell) + 1)
      d == DigitRunEnd(u, e + 1)
      r == Rest(u, d + 1)
  IN IF StartsWith(Lower(u), W_sell) /\ e > Len(W_sell) /\ d > e /\ r.ok
     THEN [ok |-> TRUE, g1 |-> SubSeq(u, e + 1, d), g2 |-> r.g]
     ELSE NoGroups

\* re.match(r"sell\s+(.+?)\s+(\d+)$", u, re.I): the first \s+ as long as it
\* can be, (.+?) as short as it can be
MatchSellNameQty(u) ==
  LET n == Len(u)
      splits == {m \in (1..n) \X (1..n) \X (1..n) :
                   /\ Len(W_sell) < m[1] /\ m[1] < m[2] /\ m[2] < m[3] /\ m[3] < n
                   /\ AllSpace(SubSeq(u, Len(W_sell) + 1, m[1]))
                   /\ AllSpace(SubSeq(u, m[2] + 1, m[3]))
                   /\ AllDigits(SubSeq(u, m[3] + 1, n))}
  IN IF ~StartsWith(Lower(u), W_sell) \/ splits = {} THEN NoGroups
     ELSE LET m == CHOOSE x \in splits :
                     \A y \in splits :
                       \/ x[1] > y[1]
                       \/ x[1] = y[1] /\ x[2] < y[2]
                       \/ x[1] = y[1] /\ x[2] = y[2] /\ x[3] >= y[3]
          IN [ok |-> TRUE, g1 |-> SubSeq(u, m[1] + 1, m[2]), g2 |-> SubSeq(u, m[3] + 1, n)]

\* re.match(r"^(\d+)\s+(.+)$", u)
MatchQtyName(u) ==
  LET d == DigitRunEnd(u, 1)
      r == Rest(u, d + 1)
  IN IF d > 0 /\ r.ok THEN [ok |-> TRUE, g1 |-> SubSeq(u, 1, d), g2 |-> r.g]
     ELSE NoGroups

\* re.match(r"^\d+$", u)
MatchQty(u) == AllDigits(u)

(***************************************************************************)
(* Storage: the two JSON files                                             *)
(***************************************************************************)
PRODUCT_FILE == "product.json"
SALE_FILE == "sale.json"

\* A JSON value is a record: kind is "object", "array", "null" or "string";
\* items holds the object (one item) or the elements of the array.  A file
\* that does not exist has kind "absent".
Object(r) == [kind |-> "object", items |-> << r >>]
Array(rs) == [kind |-> "array", items |-> rs]
Null == [kind |-> "null", items |-> << >>]
SomeString == [kind |-> "string", items |-> << >>]
Absent == [kind |-> "absent", items |-> << >>]

\* load_json(path, default) on the files fl
load_json(fl, path, default) ==
  IF fl[path].kind = "absent" THEN default ELSE fl[path]

\* save_json losing the write
save_json_lost(fl, path, data) == fl

\* save_json(path, data) on the files fl
save_json(fl, path, data) == [fl EXCEPT ![path] = data]

\* normalize_products(raw): the list, or that ValueError is raised
normalize_products(raw) ==
  IF raw.kind = "null" THEN [raised |-> FALSE, list |-> << >>]
  ELSE IF raw.kind = "object" THEN [raised |-> FALSE, list |-> raw.items]
  ELSE IF raw.kind = "array" THEN [raised |-> FALSE, list |-> raw.items]
  ELSE [raised |-> TRUE, list |-> << >>]

\* ensure_sales_list(raw)
ensure_sales_list(raw) ==
  IF raw.kind = "null" THEN << >>
  ELSE IF raw.kind = "array" THEN raw.items
  ELSE IF raw.kind = "object" THEN raw.items
  ELSE << >>

\* create_invoice_number(): "INV-" + the day of the clock + "-" + the first
\* eight hexadecimal digits of a random UUID (token)
create_invoice_number(now, token) == [day |-> now.day, token |-> token]

(***************************************************************************)
(* Bounds and inputs                                                       *)
(***************************************************************************)
MaxSales == 2        \* a sell is accepted while the ledger is shorter than this

\* the values uuid.uuid4 and datetime.now may return; the sells of a session
\* fall on one day
Tokens == {"1A2B3C4D", "9F8E7D6C"}
Instants == {[day |-> "20240102", time |-> "09:00:00"]}

DefaultProduct == [name |-> N_Galaxy, price |-> 20000, stock |-> 20]
Widget == [name |-> N_Widget, price |-> 10, stock |-> 5]
Widget3 == [name |-> N_Widget, price |-> 10, stock |-> 3]
Gadget == [name |-> N_Gadget, price |-> 25, stock |-> 1]

\* a sale of an earlier session
OldSale ==
  [invoice_number |-> [day |-> "20240101", token |-> "1A2B3C4D"],
   product_name |-> N_Gadget, quantity |-> 1, unit_price |-> 25, total |-> 25,
   payment_method |-> W_CASH, date |-> [day |-> "20240101", time |-> "17:30:00"]]

InitialProductFiles ==
  {Absent, Object(Widget), Array(<< Widget3, Gadget >>), Null, SomeString}
InitialSaleFiles == {Absent, Object(OldSale), SomeString}

\* The matches of the regular expressions of parse_and_handle on each line,
\* and the products find_product_by_name finds in each catalog, computed once.
Regexes ==
  [line \in Lines |->
     LET u == Strip(Strip(line))
     IN [u |-> u,
         low |-> Lower(u),
         sales |-> MatchSales(u),
         query |-> MatchQuery(u),
         sell |-> IF MatchSellQtyName(u).ok THEN MatchSellQtyName(u) ELSE MatchSellNameQty(u),
         bare |-> MatchQtyName(u),
         qty |-> MatchQty(u)]]

Queries ==
  UNION {{Regexes[l].u, Strip(Regexes[l].query.g), Strip(Regexes[l].sell.g1),
          Strip(Regexes[l].sell.g2), Strip(Regexes[l].bare.g2)} : l \in Lines}

Names(products) == [i \in 1..Len(products) |-> products[i].name]

Catalogs ==
  {normalize_products(f).list : f \in InitialProductFiles \cup {Object(DefaultProduct)}}

Found ==
  [names \in {Names(c) : c \in Catalogs} |->
     [q \in Queries |->
        find_product_by_name(CHOOSE c \in Catalogs : Names(c) = names, q)]]

(***************************************************************************)
(* Sale recording                                                          *)
(***************************************************************************)

\* quantity_error accepting the quantity 0
quantity_error_zero(qty, stock) ==
  IF qty < 0 THEN "Quantity must be positive."
  ELSE IF qty > stock THEN "Not enough stock."
  ELSE ""

\* quantity_error without the comparison with the stock
quantity_error_any(qty, stock) ==
  IF qty <= 0 THEN "Quantity must be positive." ELSE ""

\* lines 113-120 of record_sale: the message of the check that fails, "" when
\* the quantity passes
quantity_error(qty, stock) ==
  IF qty <= 0 THEN "Quantity must be positive."
  ELSE IF qty > stock THEN "Not enough stock."
  ELSE ""

\* lines 122-132: the invoice
make_invoice(product, qty, payment_method, now, token) ==
  [invoice_number |-> create_invoice_number(now, token),
   product_name |-> product.name,
   quantity |-> qty,
   unit_price |-> product.price,
   total |-> product.price * qty,
   payment_method |-> payment_method,
   date |-> now]

\* decrement taking one unit whatever the quantity
decrement_one(product, qty) == [product EXCEPT !.stock = product.stock - 1]

\* line 135: product["stock"] = stock - qty
decrement(product, qty) == [product EXCEPT !.stock = product.stock - qty]

\* lines 136-142: the write of product.json; sold is the product after the
\* decrement and list the list that holds it
save_products(fl, products_raw, sold, list) ==
  IF products_raw.kind = "object"
  THEN save_json(fl, PRODUCT_FILE, Object(sold))
  ELSE save_json(fl, PRODUCT_FILE, [products_raw EXCEPT !.items = list])

\* append_sale putting the invoice first
append_sale_front(fl, invoice) ==
  << invoice >> \o ensure_sales_list(load_json(fl, SALE_FILE, Null))

\* lines 145-147: the ledger read back with the invoice appended
append_sale(fl, invoice) ==
  Append(ensure_sales_list(load_json(fl, SALE_FILE, Null)), invoice)

\* record_sale(product, qty, payment_method, products_raw) on the files fl:
\* product is the index p of the product in the list the session holds
\* (products_list), which the argument products_raw aliases.  now and token
\* are the clock and the UUID prefix read; disk = "full" makes the write of
\* sale.json raise.  The result names the invoice (<< >> for None), the
\* message printed, the files and the list after the call, and whether the
\* call raised.
record_sale(fl, products_list, p, qty, payment_method, products_raw, now, token, disk) ==
  LET product == products_list[p]
      invoice == make_invoice(product, qty, payment_method, now, token)
      sold == decrement(product, qty)
      list1 == [products_list EXCEPT ![p] = sold]
      fl1 == save_products(fl, products_raw, sold, list1)
      fl2 == save_json(fl1, SALE_FILE, Array(append_sale(fl1, invoice)))
  IN IF quantity_error(qty, product.stock) # ""
     THEN [invoice |-> << >>, msg |-> quantity_error(qty, product.stock),
           raised |-> FALSE, files |-> fl, list |-> products_list]
     ELSE IF disk = "full"
     THEN [invoice |-> << >>, msg |-> "Traceback", raised |-> TRUE,
           files |-> fl1, list |-> list1]
     ELSE [invoice |-> << invoice >>, msg |-> "Sale recorded", raised |-> FALSE,
           files |-> fl2, list |-> list1]

(***************************************************************************)
(* The session                                                             *)
(***************************************************************************)
VARIABLES
  files,     \* the content of product.json and sale.json
  state,     \* the dict state of main: products_raw, products_list,
             \* last_selected_product (an index in products_list, 0 for None)
             \* and last_sales
  pc,        \* "start", "loop" (waiting for a line), "exited" or "crashed"
  user,      \* the line read last
  prompted,  \* whether the last line asked for the payment method
  answer,    \* the answer given to that prompt
  out,       \* what the last step printed: a message and the items listed
  prev       \* files, state and pc as they were before the last step, and
             \* whether that step is the first after main's welcome

vars == << files, state, pc, user, prompted, answer, out, prev >>

Snapshot ==
  [files |-> files, state |-> state, pc |-> pc, first |-> (out.msg = "Welcome")]

Init ==
  /\ files \in [{PRODUCT_FILE, SALE_FILE} -> InitialProductFiles \cup InitialSaleFiles]
  /\ files[PRODUCT_FILE] \in InitialProductFiles
  /\ files[SALE_FILE] \in InitialSaleFiles
  /\ state = [products_raw |-> Null, products_list |-> << >>,
              last_selected_product |-> 0, last_sales |-> << >>]
  /\ pc = "start"
  /\ user = << >>
  /\ prompted = FALSE
  /\ answer = << >>
  /\ out = [msg |-> "", items |-> << >>]
  /\ prev = Snapshot

\* initial_selection selecting nothing
initial_selection_none(products_list) == 0

\* line 310: the product selected when the session starts
initial_selection(products_list) == IF Len(products_list) = 1 THEN 1 ELSE 0

\* main() up to the first prompt
Main ==
  /\ pc = "start"
  /\ LET fl1 == IF files[PRODUCT_FILE].kind = "absent"
                THEN save_json(files, PRODUCT_FILE, Object(DefaultProduct))
                ELSE files
         fl2 == IF fl1[SALE_FILE].kind = "absent"
                THEN save_json(fl1, SALE_FILE, Array(<< >>))
                ELSE fl1
         products_raw == load_json(fl2, PRODUCT_FILE, Null)
         normalized == normalize_products(products_raw)
         products_list == normalized.list
         sales == ensure_sales_list(load_json(fl2, SALE_FILE, Null))
     IN /\ files' = fl2
        /\ IF normalized.raised
           THEN /\ pc' = "crashed"
                /\ out' = [msg |-> "Traceback", items |-> << >>]
                /\ UNCHANGED state
           ELSE /\ pc' = "loop"
                /\ state' = [products_raw |-> products_raw,
                             products_list |-> products_list,
                             last_selected_product |-> initial_selection(products_list),
                             last_sales |-> sales]
                /\ out' = [msg |-> "Welcome", items |-> products_list]
  /\ prev' = Snapshot
  /\ UNCHANGED << user, prompted, answer >>

\* show_sales(sales, filter_name); filter_name is << >> for None
show_sales(sales, filter_name) ==
  LET hit == {i \in 1..Len(sales) :
                Contains(Lower(sales[i].product_name), Lower(filter_name))}
      items == IF filter_name # << >>
               THEN [k \in 1..Cardinality(hit) |->
                       sales[CHOOSE i \in hit : Cardinality({j \in hit : j <= i}) = k]]
               ELSE sales
  IN IF sales = << >> THEN [msg |-> "No sales recorded yet.", items |-> << >>]
     ELSE IF items = << >> THEN [msg |-> "No sales match that query.", items |-> << >>]
     ELSE [msg |-> "Sales:", items |-> [k \in 1..Len(items) |-> items[Len(items) + 1 - k]]]

\* show_product(product)
show_product(product) == [msg |-> "Product", items |-> << product >>]

\* Say forgetting the sales of the session
Say_forget(o) ==
  /\ out' = o
  /\ prompted' = FALSE
  /\ answer' = << >>
  /\ state' = [state EXCEPT !.last_sales = << >>]
  /\ UNCHANGED << files, pc >>

\* a branch of parse_and_handle that prints and returns
Say(o) ==
  /\ out' = o
  /\ prompted' = FALSE
  /\ answer' = << >>
  /\ UNCHANGED << files, state, pc >>

\* Select showing the product without selecting it
Select_keep(p) ==
  /\ out' = show_product(state.products_list[p])
  /\ prompted' = FALSE
  /\ answer' = << >>
  /\ UNCHANGED << files, state, pc >>

\* a branch that shows the product at index p and selects it
Select(p) ==
  /\ out' = show_product(state.products_list[p])
  /\ state' = [state EXCEPT !.last_selected_product = p]
  /\ prompted' = FALSE
  /\ answer' = << >>
  /\ UNCHANGED << files, pc >>

\* payment_method without the default
payment_method_raw(a) == Upper(Strip(a))

\* the payment method read at the prompt
payment_method(a) == IF Upper(Strip(a)) = << >> THEN W_CASH ELSE Upper(Strip(a))

\* the fourth argument of record_sale
products_arg(st) ==
  IF st.products_raw.kind = "array" THEN st.products_raw ELSE Array(st.products_list)

\* the payment prompt, record_sale and the refresh of the session that follow
\* the resolution of a sell to the product at index p
Sell(p, qty) ==
  /\ Len(state.last_sales) < MaxSales
  /\ \E a \in PaymentAnswers, now \in Instants, token \in Tokens, disk \in {"ok", "full"} :
       LET r == record_sale(files, state.products_list, p, qty, payment_method(a),
                            products_arg(state), now, token, disk)
           raw1 == IF state.products_raw.kind \in {"object", "array"}
                   THEN [state.products_raw EXCEPT !.items = r.list]
                   ELSE state.products_raw
       IN /\ prompted' = TRUE
          /\ answer' = a
          /\ files' = r.files
          /\ out' = [msg |-> r.msg, items |-> r.invoice]
          /\ pc' = IF r.raised THEN "crashed" ELSE pc
          /\ state' =
               IF r.invoice # << >>
               THEN [products_raw |-> raw1,
                     products_list |-> r.list,
                     last_selected_product |-> p,
                     last_sales |-> load_json(r.files, SALE_FILE, Array(<< >>)).items]
               ELSE [state EXCEPT !.products_raw = raw1, !.products_list = r.list]

\* Find falling back to the first product of the catalog
Find_first(products, name) ==
  IF Found[Names(products)][name] # 0 THEN Found[Names(products)][name]
  ELSE IF Len(products) > 0 THEN 1 ELSE 0

\* find_product_by_name on the catalog of the session
Find(products, name) == Found[Names(products)][name]

\* parse_and_handle(user, state) for the line read by main
ParseAndHandle(line) ==
  LET u == Regexes[line].u
      low == Regexes[line].low
      products_list == state.products_list
      last_product == state.last_selected_product
      sales == state.last_sales
      ms == Regexes[line].sales
      mq == Regexes[line].query
      m == Regexes[line].sell
      mb == Regexes[line].bare
  IN IF u = << >> THEN Say([msg |-> "", items |-> << >>])
     ELSE IF low \in {W_help, W_qmark} THEN Say([msg |-> "help", items |-> << >>])
     ELSE IF low \in {W_exit, W_quit}
       THEN /\ out' = [msg |-> "Goodbye!", items |-> << >>]
            /\ pc' = "exited"
            /\ prompted' = FALSE
            /\ answer' = << >>
            /\ UNCHANGED << files, state >>
     ELSE IF low \in {W_show_products, W_list_products, W_products}
       THEN Say([msg |-> IF products_list = << >> THEN "No products loaded." ELSE "Products:",
                 items |-> products_list])
     ELSE IF StartsWith(low, W_show_sales) \/ StartsWith(low, W_sales)
       THEN Say(show_sales(sales, IF ms.ok /\ ms.name.ok THEN ms.name.g ELSE << >>))
     ELSE IF low \in {W_show_last_sale, W_last_sale}
       THEN IF sales # << >>
            THEN Say(show_sales(<< sales[Len(sales)] >>, << >>))
            ELSE Say([msg |-> "No sales yet.", items |-> << >>])
     ELSE IF /\ \/ StartsWith(low, W_show_)
                \/ StartsWith(low, W_price_of_)
                \/ StartsWith(low, W_how_many_)
             /\ mq.ok
       THEN LET p == Find(products_list, Strip(mq.g))
            IN IF p # 0 THEN Select(p)
               ELSE Say([msg |-> "Product not found.", items |-> << >>])
     ELSE IF m.ok
       THEN IF ~AllDigits(m.g1) /\ ~AllDigits(m.g2)
            THEN Say([msg |-> "Couldn't parse quantity.", items |-> << >>])
            ELSE LET qty == IF AllDigits(m.g1) THEN ToInt(m.g1) ELSE ToInt(m.g2)
                     name == IF AllDigits(m.g1) THEN Strip(m.g2) ELSE Strip(m.g1)
                     p == Find(products_list, name)
                 IN IF p = 0 THEN Say([msg |-> "Product not found.", items |-> << >>])
                    ELSE Sell(p, qty)
     ELSE IF mb.ok
       THEN LET qty == ToInt(mb.g1)
                p == Find(products_list, Strip(mb.g2))
            IN IF p # 0 THEN Sell(p, qty)
               ELSE IF last_product # 0
               THEN Say([msg |-> "Product not found. Try 'show products' to see names.",
                         items |-> << >>])
               ELSE Say([msg |-> "Product not found.", items |-> << >>])
     ELSE IF Regexes[line].qty
       THEN IF last_product = 0
            THEN Say([msg |-> "No product selected.", items |-> << >>])
            ELSE Sell(last_product, ToInt(u))
     ELSE LET p == Find(products_list, u)
          IN IF p # 0 THEN Select(p)
             ELSE IF ms.ok /\ ms.name.ok THEN Say(show_sales(sales, Strip(ms.name.g)))
             ELSE Say([msg |-> "Sorry", items |-> << >>])

\* one turn of the loop of main: read a line and handle it
Command ==
  /\ pc = "loop"
  /\ \E line \in Lines :
       /\ user' = line
       /\ prev' = Snapshot
       /\ ParseAndHandle(line)

\* Ctrl-C at the prompt of main
KeyboardInterrupt ==
  /\ pc = "loop"
  /\ pc' = "exited"
  /\ out' = [msg |-> "Bye!", items |-> << >>]
  /\ prev' = Snapshot
  /\ UNCHANGED << files, state, user, prompted, answer >>

Next == Main \/ Command \/ KeyboardInterrupt

Spec == Init /\ [][Next]_vars

(***************************************************************************)
(* What the properties below speak about                                   *)
(***************************************************************************)

\* the ledger and the catalog as persisted in the files fl
Ledger(fl) == ensure_sales_list(load_json(fl, SALE_FILE, Null))
Catalog(fl) == normalize_products(load_json(fl, PRODUCT_FILE, Null)).list

IsPrefix(s, t) == Len(s) <= Len(t) /\ SubSeq(t, 1, Len(s)) = s

\* the last step handled the line user
AfterCommand == prev.pc = "loop" /\ out.msg # "Bye!"

\* the last step was a sell that record_sale answered with an invoice
Sold == AfterCommand /\ out.msg = "Sale recorded"

\* the last step left files and session as they were
NothingChanged == files = prev.files /\ state = prev.state

Rejections == {"Quantity must be positive.", "Not enough stock."}

\* The sell lines of the model as the grammar of the help text reads them:
\* the quantity, and the name typed (<< >> for a bare quantity).
N_Nope == << "N", "o", "p", "e" >>
W_UPI == << "U", "P", "I" >>

SellForms ==
  { [line |-> L_sell_qty_name, form |-> "sell <qty> <name>", qty |-> 2, name |-> N_Widget],
    [line |-> L_sell_too_many, form |-> "sell <qty> <name>", qty |-> 9, name |-> N_Widget],
    [line |-> L_sell_unknown, form |-> "sell <qty> <name>", qty |-> 1, name |-> N_Nope],
    [line |-> L_sell_name_qty, form |-> "sell <name> <qty>", qty |-> 1, name |-> N_Gadget],
    [line |-> L_sell_zero, form |-> "sell <name> <qty>", qty |-> 0, name |-> N_Gadget],
    [line |-> L_qty_name, form |-> "<qty> <name>", qty |-> 1, name |-> N_Gadget],
    [line |-> L_qty_name_too_many, form |-> "<qty> <name>", qty |-> 7, name |-> Lower(N_Widget)],
    [line |-> L_qty_unknown, form |-> "<qty> <name>", qty |-> 2, name |-> N_Nope],
    [line |-> L_three, form |-> "<qty>", qty |-> 3, name |-> << >>],
    [line |-> L_zero, form |-> "<qty>", qty |-> 0, name |-> << >>],
    [line |-> L_ten, form |-> "<qty>", qty |-> 10, name |-> << >>] }

\* the query lines and the bare names, with the name typed
QueryForms ==
  { [line |-> L_show_name, form |-> "show <name>", name |-> N_Widget],
    [line |-> L_price_of, form |-> "price of <name>", name |-> Lower(N_Gadget)],
    [line |-> L_how_many, form |-> "how many <name>", name |-> N_Widget] }

NameForms ==
  { [line |-> L_name, form |-> "<name>", name |-> L_name],
    [line |-> L_name_part, form |-> "<name>", name |-> L_name_part],
    [line |-> L_name_typo, form |-> "<name>", name |-> L_name_typo],
    [line |-> L_name_default, form |-> "<name>", name |-> L_name_default] }

\* the product a form is about in the session st: the one its name resolves
\* to, the selected one for a bare quantity; 0 when there is none
Resolved ==
  [names \in {Names(c) : c \in Catalogs} |->
     [q \in {f.name : f \in SellForms \cup QueryForms \cup NameForms} |->
        find_product_by_name(CHOOSE c \in Catalogs : Names(c) = names, q)]]

Target(f, st) ==
  IF f.name = << >> THEN st.last_selected_product
  ELSE Resolved[Names(st.products_list)][f.name]

\* the payment method each answer of the model stands for
ExpectedMethod(a) == IF a = A_upi THEN W_UPI ELSE W_CASH

(***************************************************************************)
(* Properties                                                              *)
(***************************************************************************)

\* C1: a successful sell of quantity q of product P records total =
\* unit_price * q with the price of P, leaves P with its stock minus q in
\* memory and in product.json, and makes the ledger, persisted and of the
\* session, exactly one entry longer.
C1_SuccessfulSell ==
  \A f \in SellForms :
    (Sold /\ user = f.line) =>
      LET inv == out.items[1]
          p == Target(f, prev.state)
          before == prev.state.products_list[p]
      IN /\ p # 0
         /\ inv.quantity = f.qty
         /\ inv.unit_price = before.price
         /\ inv.total = before.price * f.qty
         /\ state.products_list[p].stock = before.stock - f.qty
         /\ Catalog(files)[p].stock = before.stock - f.qty
         /\ Len(Ledger(files)) = Len(Ledger(prev.files)) + 1
         /\ Len(state.last_sales) = Len(prev.state.last_sales) + 1

C1_Witness ==
  /\ Sold
  /\ user = L_sell_qty_name
  /\ out.items[1].total = 20
  /\ Len(state.last_sales) = 2

\* C2: a sell whose quantity is 0 or exceeds the stock of its product is
\* rejected with a message and changes nothing: files, catalog, ledger and
\* selected product are as before, whichever form the line has.
C2_RejectedSell ==
  \A f \in SellForms :
    ( /\ AfterCommand
      /\ user = f.line
      /\ Target(f, prev.state) # 0
      /\ \/ f.qty <= 0
         \/ f.qty > prev.state.products_list[Target(f, prev.state)].stock )
    => /\ out.msg \in Rejections
       /\ out.msg = "Quantity must be positive." <=> f.qty <= 0
       /\ NothingChanged
       /\ pc = "loop"

C2_Witness ==
  /\ AfterCommand
  /\ user = L_qty_name_too_many
  /\ prompted
  /\ out.msg = "Not enough stock."
  /\ prev.state.products_list[Target([name |-> Lower(N_Widget)], prev.state)].stock < 7

\* C3: every stock stays >= 0, in the session and in product.json.
C3_StockNonNegative ==
  /\ \A i \in 1..Len(state.products_list) : state.products_list[i].stock >= 0
  /\ \A i \in 1..Len(Catalog(files)) : Catalog(files)[i].stock >= 0

C3_Witness ==
  /\ AfterCommand
  /\ out.msg = "Not enough stock."
  /\ \E i \in 1..Len(Catalog(files)) :
       /\ Catalog(files)[i].stock = 0
       /\ state.products_list[i].stock = 0
  /\ Ledger(files) # << >>

\* C4: catalog update and ledger append are one transaction: over a step of
\* the session, each product's persisted stock drops by exactly the quantity
\* of the record the persisted ledger gained for it, also when the sell
\* stops between its two writes.
C4_OneTransaction ==
  prev.pc = "loop" =>
    LET old == Ledger(prev.files)
        new == Ledger(files)
        added == SubSeq(new, Len(old) + 1, Len(new))
        sold(name) == IF added # << >> /\ added[1].product_name = name
                      THEN added[1].quantity ELSE 0
    IN /\ Len(added) <= 1
       /\ \A i \in 1..Len(Catalog(prev.files)) :
            Catalog(prev.files)[i].stock - Catalog(files)[i].stock
              = sold(Catalog(prev.files)[i].name)

\* C5: the write of product.json keeps the form of the record: an object
\* stays an object and an array an array over every step of the session.
C5_ShapePreserved ==
  prev.pc = "loop" => files[PRODUCT_FILE].kind = prev.files[PRODUCT_FILE].kind

\* C6: the ledger is append-only: over every step the ledger before, persisted
\* and of the session, is a prefix of the ledger after, which is at most one
\* record longer.
C6_AppendOnly ==
  /\ IsPrefix(Ledger(prev.files), Ledger(files))
  /\ IsPrefix(prev.state.last_sales, state.last_sales)
  /\ Len(Ledger(files)) <= Len(Ledger(prev.files)) + 1
  /\ Sold => /\ Ledger(files) = Append(Ledger(prev.files), out.items[1])
             /\ state.last_sales = Append(prev.state.last_sales, out.items[1])

C6_Witness ==
  /\ Sold
  /\ Ledger(prev.files) = << OldSale >>
  /\ Len(Ledger(files)) = 2
  /\ Ledger(files)[1] = OldSale

\* C7: the invoice numbers of the ledger are pairwise distinct.
C7_InvoicesDistinct ==
  \A i, j \in 1..Len(Ledger(files)) :
    i # j => Ledger(files)[i].invoice_number # Ledger(files)[j].invoice_number

BareIntegers == {f.line : f \in {g \in SellForms : g.name = << >>}}

\* C8 as stated: "10" typed as the first line of a session on the single
\* product Widget, before any command selected a product, reports that no
\* product is selected and changes nothing; and no bare integer typed before a
\* command selected a product sells.
C8_NoProductSelected ==
  (AfterCommand /\ prev.first) =>
    /\ (user = L_ten /\ prev.state.products_list = << Widget >>) =>
         out.msg = "No product selected." /\ NothingChanged
    /\ user \in BareIntegers => ~Sold

\* C8 amended: a bare integer reports that no product is selected, and changes
\* nothing, exactly when none is selected.  A session on a catalog of one
\* product starts with that product selected, so a bare integer is a sell of
\* it from the first line on: "10" on Widget (stock 5) is refused for lack
\* of stock, with no change.  A session on no or several products starts with
\* none selected.
C8_BareInteger ==
  /\ \A f \in SellForms :
       (AfterCommand /\ user = f.line /\ f.name = << >>) =>
         IF prev.state.last_selected_product = 0
         THEN out.msg = "No product selected." /\ NothingChanged /\ ~prompted
         ELSE /\ prompted
              /\ out.msg # "No product selected."
              /\ out.msg = "Sale recorded" =>
                   out.items[1].product_name =
                     prev.state.products_list[prev.state.last_selected_product].name
  /\ prev.first =>
       (prev.state.last_selected_product # 0 <=> Len(prev.state.products_list) = 1)
  /\ (AfterCommand /\ prev.first /\ user = L_ten /\ prev.state.products_list = << Widget >>) =>
       out.msg = "Not enough stock." /\ NothingChanged

C8_Witness ==
  /\ AfterCommand
  /\ prev.first
  /\ user = L_ten
  /\ prev.state.products_list = << Widget >>
  /\ out.msg = "Not enough stock."

\* C9: when a bare name has just shown and selected the product P it resolves
\* to, a bare integer q with 1 <= q <= stock of P that is handled to the end
\* sells q units of P and of no other product: the stock of P drops by q in
\* the session and in product.json, one record with the name of P, quantity
\* q, total price * q and the payment method answered (upper case, CASH when
\* blank) is appended to the ledger, and P stays selected.
C9_Step ==
  \A f \in NameForms, g \in SellForms :
    LET P == Target(f, state)
        product == state.products_list[P]
        rec == state'.last_sales[Len(state'.last_sales)]
    IN ( /\ AfterCommand /\ pc = "loop"
         /\ user = f.line /\ P # 0
         /\ out = show_product(product)
         /\ state.last_selected_product = P
         /\ user' = g.line /\ g.name = << >>
         /\ 1 <= g.qty /\ g.qty <= product.stock
         /\ pc' = "loop" )
       => /\ state'.products_list =
               [state.products_list EXCEPT ![P].stock = product.stock - g.qty]
          /\ Catalog(files') = state'.products_list
          /\ state'.last_sales = Append(state.last_sales, rec)
          /\ Ledger(files') = Append(Ledger(files), rec)
          /\ rec.product_name = product.name
          /\ rec.quantity = g.qty
          /\ rec.unit_price = product.price
          /\ rec.total = product.price * g.qty
          /\ rec.payment_method = ExpectedMethod(answer')
          /\ out' = [msg |-> "Sale recorded", items |-> << rec >>]
          /\ state'.last_selected_product = P

C9_SelectThenSell == [][C9_Step]_vars

C9_Witness ==
  /\ Sold
  /\ user = L_three
  /\ answer = A_upi
  /\ Len(state.products_list) = 2
  /\ state.last_selected_product = 1
  /\ out.items[1].product_name = N_Widget
  /\ out.items[1].quantity = 3
  /\ out.items[1].total = 30
  /\ out.items[1].payment_method = W_UPI
  /\ state.products_list[1].stock = 0

\* C10 as stated: every command whose name resolves to a product P leaves P
\* selected: the queries, the bare names, and the sell forms whatever the
\* quantity check says.
C10_AlwaysSelected ==
  (AfterCommand /\ pc = "loop") =>
    /\ \A f \in QueryForms \cup NameForms :
         (user = f.line /\ Target(f, prev.state) # 0) =>
           state.last_selected_product = Target(f, prev.state)
    /\ \A g \in SellForms :
         (user = g.line /\ g.name # << >> /\ Target(g, prev.state) # 0) =>
           state.last_selected_product = Target(g, prev.state)

\* C10 amended: a query or a bare name that resolves to P shows P and leaves
\* P selected; a sell form whose name resolves to P leaves P selected when
\* the sale is recorded, and leaves the selection as it was when the
\* quantity is refused.
C10_Selection ==
  (AfterCommand /\ pc = "loop") =>
    /\ \A f \in QueryForms \cup NameForms :
         (user = f.line /\ Target(f, prev.state) # 0) =>
           /\ state.last_selected_product = Target(f, prev.state)
           /\ out = show_product(state.products_list[Target(f, prev.state)])
    /\ \A g \in SellForms :
         (user = g.line /\ g.name # << >> /\ Target(g, prev.state) # 0) =>
           IF Sold
           THEN state.last_selected_product = Target(g, prev.state)
           ELSE /\ out.msg \in Rejections
                /\ state.last_selected_product = prev.state.last_selected_product

C10_Witness ==
  /\ AfterCommand
  /\ pc = "loop"
  /\ user = L_sell_too_many
  /\ out.msg = "Not enough stock."
  /\ Target([name |-> N_Widget], prev.state) = 1
  /\ state.last_selected_product = 2

\* a sequence back to front
Reverse(s) == [k \in 1..Len(s) |-> s[Len(s) + 1 - k]]

\* the entries of sales whose product_name contains name whatever the case,
\* all of them for the name << >>, the most recent first
Listed(sales, name) ==
  LET Hit(s) == name = << >> \/ Contains(Lower(s.product_name), Lower(name))
  IN Reverse(SelectSeq(sales, Hit))

\* the sales listings of the model, with the name typed after "for"
N_Gad == << "G", "a", "d" >>

SalesForms ==
  { [line |-> L_show_sales, form |-> "show sales", name |-> << >>],
    [line |-> L_show_sales_for, form |-> "show sales for <name>", name |-> N_Gad],
    [line |-> L_sales_for, form |-> "sales for <name>", name |-> N_Gad] }

\* C11: "show sales for <name>" and "sales for <name>" list exactly the
\* ledger entries whose product_name contains <name> whatever the case, the
\* most recent first; "show sales" lists every ledger entry, the most recent
\* first.
C11_SalesListing ==
  \A f \in SalesForms :
    (AfterCommand /\ user = f.line) =>
      out.items = Listed(prev.state.last_sales, f.name)

(***************************************************************************)
(* find_product_by_name on its own: one call on a catalog and a query      *)
(***************************************************************************)
MaxCatalog == 2      \* the longest catalog the call is given

\* the names the products of these catalogs carry
N_widget == << "w", "i", "d", "g", "e", "t" >>
N_Wid_ == << "W", "i", "d", " " >>
N_A_1 == << "A", " ", "1" >>
N_empty == << >>

MatcherNames == {N_Widget, N_widget, N_Gadget, N_Wid_, N_A_1, N_empty}

\* the texts asked for beside the names themselves in any letter case
Q_ga == << "g", "a" >>
Q_dget == << "d", "g", "e", "t" >>
Q_space == << " " >>
Q_ga_spaced == << " ", "g", "a", " " >>
Q_Widgte == << "W", "i", "d", "g", "t", "e" >>
Q_Gidget == << "G", "i", "d", "g", "e", "t" >>
Q_xyz == << "x", "y", "z" >>

MatcherQueries ==
  MatcherNames
    \cup {Lower(n) : n \in MatcherNames}
    \cup {Upper(n) : n \in MatcherNames}
    \cup {Q_ga, Q_dget, Q_space, Q_ga_spaced, Q_Widgte, Q_Gidget, Q_xyz}

\* a product of the name n
Named(n) == [name |-> n, price |-> 10, stock |-> 5]

MatcherCatalogs ==
  UNION {[1..k -> {Named(n) : n \in MatcherNames}] : k \in 0..MaxCatalog}

\* before the call: the catalog in the session, the query in user
MatcherInit ==
  /\ \E c \in MatcherCatalogs :
       /\ files = [f \in {PRODUCT_FILE, SALE_FILE} |->
                     IF f = PRODUCT_FILE THEN Array(c) ELSE Array(<< >>)]
       /\ state = [products_raw |-> Array(c), products_list |-> c,
                   last_selected_product |-> 0, last_sales |-> << >>]
  /\ user \in MatcherQueries
  /\ pc = "find"
  /\ prompted = FALSE
  /\ answer = << >>
  /\ out = [msg |-> "", items |-> << >>]
  /\ prev = Snapshot

\* p = find_product_by_name(products_list, user), then what lines 265-267 and
\* 198-202 do with p
FindProduct ==
  /\ pc = "find"
  /\ pc' = "found"
  /\ LET p == find_product_by_name(state.products_list, user)
     IN /\ state' = [state EXCEPT !.last_selected_product = p]
        /\ out' = IF p # 0 THEN show_product(state.products_list[p])
                  ELSE [msg |-> "Product not found.", items |-> << >>]
  /\ prev' = Snapshot
  /\ UNCHANGED << files, user, prompted, answer >>

MatcherNext == FindProduct

MatcherSpec == MatcherInit /\ [][MatcherNext]_vars

\* what the call returned: an index in the catalog, 0 for None
Returned == state.last_selected_product

\* the name of product i and the query, trimmed and in lower case
Key(t) == Lower(Strip(t))

\* the products whose name is the query up to letter case
SameName(products, q) ==
  {i \in 1..Len(products) : Lower(products[i].name) = Lower(q)}

\* the products whose name contains the query up to letter case
Containing(products, q) ==
  {i \in 1..Len(products) : Contains(Lower(products[i].name), Lower(q))}

\* C12 as stated: in every catalog, a query equal to the name of the product
\* P up to letter case returns P, wherever P stands in the catalog.
C12_ExactAnyCatalog ==
  pc = "found" =>
    \A P \in SameName(state.products_list, user) : Returned = P

\* C12 amended: when the name of P is not blank and no other product of the
\* catalog has the same name up to letter case and surrounding whitespace, a
\* query equal to the name of P up to letter case returns P, wherever P
\* stands in the catalog.
C12_ExactMatch ==
  pc = "found" =>
    \A P \in SameName(state.products_list, user) :
      ( /\ Key(state.products_list[P].name) # << >>
        /\ \A i \in 1..Len(state.products_list) :
             i # P => Key(state.products_list[i].name) # Key(state.products_list[P].name) )
      => Returned = P

C12_Witness ==
  /\ pc = "found"
  /\ user = Upper(N_Gadget)
  /\ Names(state.products_list) = << N_Widget, N_Gadget >>
  /\ Returned = 2

\* C13 as stated: a query that is contained, up to letter case, in the name
\* of exactly one product and is the full name of none returns that product,
\* with the whitespace it carries and when it is whitespace only.
C13_SubstringAsTyped ==
  pc = "found" =>
    \A P \in 1..Len(state.products_list) :
      ( /\ Containing(state.products_list, user) = {P}
        /\ SameName(state.products_list, user) = {} )
      => Returned = P

\* the products whose trimmed name contains the trimmed query, and those
\* whose trimmed name is the trimmed query, up to letter case
ContainingKey(products, q) ==
  {i \in 1..Len(products) : Contains(Key(products[i].name), Key(q))}

SameKey(products, q) ==
  {i \in 1..Len(products) : Key(products[i].name) = Key(q)}

\* C13 amended: the query is trimmed first.  A query whose trimmed text is
\* not empty, is contained up to letter case in the trimmed name of exactly
\* one product and is the trimmed name of none returns that product; a query
\* of whitespace only returns none, whatever the names contain.
C13_UniqueSubstring ==
  pc = "found" =>
    /\ \A P \in 1..Len(state.products_list) :
         ( /\ Key(user) # << >>
           /\ ContainingKey(state.products_list, user) = {P}
           /\ SameKey(state.products_list, user) = {} )
         => Returned = P
    /\ Key(user) = << >> => Returned = 0

C13_Witness ==
  /\ pc = "found"
  /\ user = Q_ga_spaced
  /\ Names(state.products_list) = << N_Widget, N_Gadget >>
  /\ Returned = 2

\* the similarity of the text q to every name of the catalog is below the
\* cutoff
AllBelowCutoff(products, q) ==
  \A i \in 1..Len(products) :
    10 * Ratio(products[i].name, q)[1] < 6 * Ratio(products[i].name, q)[2]

\* C14 as stated: a query whose similarity to every name of the catalog is
\* below the cutoff 0.6 returns none.
C14_BelowCutoffNone ==
  (pc = "found" /\ AllBelowCutoff(state.products_list, user)) => Returned = 0

\* C14 amended: a query whose trimmed text is contained, up to letter case,
\* in no trimmed name of the catalog, and whose similarity to every name of
\* the catalog is below the cutoff 0.6, returns none.
C14_NoTierMatches ==
  ( /\ pc = "found"
    /\ ContainingKey(state.products_list, user) = {}
    /\ AllBelowCutoff(state.products_list, Strip(user)) )
  => Returned = 0

C14_Witness ==
  /\ pc = "found"
  /\ user = Q_xyz
  /\ Names(state.products_list) = << N_Widget, N_Gadget >>
  /\ Returned = 0

\* the last step was main reading the files
Started == prev.pc = "start" /\ pc # "start"

\* C15: at startup a product.json that is present and holds neither an
\* object nor an array (null, a string, a number) makes the startup fail; the
\* session never proceeds on an empty catalog made from it.
C15_MalformedFails ==
  ( /\ Started
    /\ prev.files[PRODUCT_FILE].kind \notin {"absent", "object", "array"} )
  => pc = "crashed"

NotFound ==
  {"Product not found.", "Product not found. Try 'show products' to see names."}

\* C16: a bare "<qty> <name>" line whose name resolves to no product reports
\* not-found, does not ask for the payment method and sells nothing, also
\* when a product is selected: files, catalog, ledger and selected product
\* are as before.
C16_BareUnresolved ==
  \A f \in SellForms :
    ( /\ AfterCommand
      /\ user = f.line
      /\ f.form = "<qty> <name>"
      /\ Target(f, prev.state) = 0 )
    => /\ out.msg \in NotFound
       /\ out.items = << >>
       /\ ~prompted
       /\ NothingChanged

C16_Witness ==
  /\ AfterCommand
  /\ user = L_qty_unknown
  /\ prev.state.last_selected_product = 2
  /\ Ledger(files) # << >>
  /\ out.msg = "Product not found. Try 'show products' to see names."
  /\ state.last_selected_product = 2

\* the four query forms, with the name typed
AllQueryForms ==
  QueryForms \cup
    { [line |-> L_what_is, form |-> "what is the price of <name>", name |-> N_Widget] }

\* C17: each of "show <name>", "price of <name>", "how many <name>" and
\* "what is the price of <name>" looks <name> up: when it resolves to P, P
\* is displayed and becomes the selected product; when it does not, not-found
\* is reported and the selection stays.
C17_QueryForms ==
  \A f \in AllQueryForms :
    (AfterCommand /\ user = f.line) =>
      LET P == Target(f, prev.state)
      IN IF P # 0
         THEN /\ out = show_product(prev.state.products_list[P])
              /\ state = [prev.state EXCEPT !.last_selected_product = P]
         ELSE /\ out.msg = "Product not found."
              /\ state = prev.state

\* C18: a line handled without the sell transaction (help, the listings,
\* last sale, the queries, bare names, unknown text, blank lines, sells of an
\* unknown name) or refused by it leaves the name, price and stock of every
\* product and the whole ledger as they were, in the session and in the
\* files; only the selected product may differ.
C18_OnlySellMutates ==
  (AfterCommand /\ (~prompted \/ out.msg \in Rejections)) =>
    /\ files = prev.files
    /\ state = [prev.state EXCEPT !.last_selected_product = state.last_selected_product]

C18_Witness ==
  /\ AfterCommand
  /\ ~prompted
  /\ user = L_price_of
  /\ Len(Ledger(files)) = 2
  /\ prev.state.last_selected_product = 1
  /\ state.last_selected_product = 2

\* the quantities of the entries of sales that carry the name, added up
RECURSIVE SoldQuantity(_, _)
SoldQuantity(sales, name) ==
  IF sales = << >> THEN 0
  ELSE SoldQuantity(Tail(sales), name)
         + (IF Head(sales).product_name = name THEN Head(sales).quantity ELSE 0)

\* the catalog the session of these products started with
StartCatalog(products) == CHOOSE c \in Catalogs : Names(c) = Names(products)

\* the session started with an empty ledger: the sale of the earlier
\* session is not in it
StartedEmpty == \A k \in 1..Len(Ledger(files)) : Ledger(files)[k] # OldSale

\* C19: in a session started with an empty ledger (the product names of
\* every catalog here differ), after any sequence of commands the stock of
\* each product plus the quantities of the ledger entries that carry its name
\* is the stock the product had when the session started.
C19_Conservation ==
  (pc # "start" /\ StartedEmpty) =>
    \A i \in 1..Len(Catalog(files)) :
      Catalog(files)[i].stock + SoldQuantity(Ledger(files), Catalog(files)[i].name)
        = StartCatalog(Catalog(files))[i].stock

\* C20: whenever the session waits for the next line, the ledger it holds is
\* the ledger of sale.json and the products it holds are the products of
\* product.json.
C20_SessionMatchesFiles ==
  pc = "loop" =>
    /\ state.last_sales = Ledger(files)
    /\ state.products_list = Catalog(files)

C20_Witness ==
  /\ pc = "loop"
  /\ Sold
  /\ user = L_qty_name
  /\ Len(state.products_list) = 2
  /\ Len(state.last_sales) = 2
  /\ state.last_sales[1].product_name = N_Widget
  /\ state.products_list[2].stock = 0
  /\ Catalog(files)[2].stock = 0

====
